---- MODULE Spec2Model ----
(***************************************************************************)
(* The augmentation pre-processing scripts of gongkeo/datacentric          *)
(* (scripts/preprocess_augmentations.py and                                *)
(* scripts/preprocess_outlier_augmentations.py): ResampleDataset, its      *)
(* resume scan, the DataLoader workers that write the sample archives and  *)
(* the integrity pass test_integrity, as one state machine over the        *)
(* destination directory.                                                  *)
(*                                                                         *)
(* Python strings are sequences of one-character strings, so that the      *)
(* archive naming of __getitem__ and the prefix extraction of              *)
(* resume_preprocessing are computed the way the code computes them.       *)
(***************************************************************************)
EXTENDS Naturals, Sequences, FiniteSets, TLC

VARIABLES
    dest,              \* the destination directory: [exists, files], files maps a name to its content
    status,            \* "idle", "running", "verifying", "killed", "ctor_raised",
                       \* "task_raised", "completed", "verify_raised"
    script,            \* which of the two scripts runs: "augmentations" or "outlier"
    resume,            \* ResampleDataset(resume=...)
    samples_per_file,  \* ResampleDataset(samples_per_file=...)
    valid_files,       \* what resume_preprocessing returned to __init__
    files,             \* self.files, the work list
    pc,                \* per worker: where it is in __getitem__, "done" when it has no
                       \* batch left, or the exception that ended it
    task,              \* per worker: the index into self.files it works on
    idx,               \* per worker: the loop variable i of __getitem__
    lock,              \* self.lock: 0 when free, else the worker holding it
    dest0,             \* the destination directory as it was when the run started
    written,           \* the names np.savez_compressed has opened during the run
    report,            \* what test_integrity did: [raised, examined, reported]
    dir_listing,       \* test_integrity: what os.listdir(dir_path) returned
    verdicts           \* per archive name: what outlier_detection_fn(image) returned

vars == <<dest, status, script, resume, samples_per_file, valid_files, files,
          pc, task, idx, lock, dest0, written, report, dir_listing, verdicts>>

(***************************************************************************)
(* Bounds of the model.                                                    *)
(***************************************************************************)
MaxSamples == 2
MaxWorkers == 2
MaxBaseLen == 3

(***************************************************************************)
(* Strings.                                                                *)
(***************************************************************************)
Alphabet ==
    <<".", "/", "0", "1", "2", "3", "4", "5", "6", "7", "8", "9", "_",
      "a", "b", "c", "d", "e", "f", "g", "h", "i", "j", "k", "l", "m",
      "n", "o", "p", "q", "r", "s", "t", "u", "v", "w", "x", "y", "z">>

\* the rank of a character in code point order
Ord(c) == CHOOSE k \in 1..Len(Alphabet) : Alphabet[k] = c

RECURSIVE StrLess(_, _)
\* Python's s < t on strings
StrLess(s, t) ==
    IF t = <<>> THEN FALSE
    ELSE IF s = <<>> THEN TRUE
    ELSE IF s[1] = t[1] THEN StrLess(Tail(s), Tail(t))
    ELSE Ord(s[1]) < Ord(t[1])

RECURSIVE SortStrs(_)
\* the sorted list of a set of strings
SortStrs(S) ==
    IF S = {} THEN <<>>
    ELSE LET m == CHOOSE x \in S : \A y \in S \ {x} : StrLess(x, y)
         IN  <<m>> \o SortStrs(S \ {m})

StartsWith(s, p) == Len(p) <= Len(s) /\ SubSeq(s, 1, Len(p)) = p

RECURSIVE Split(_, _)
\* s.split(c) for a one-character separator c
Split(s, c) ==
    IF \A k \in 1..Len(s) : s[k] # c THEN <<s>>
    ELSE LET k == CHOOSE k \in 1..Len(s) : s[k] = c /\ \A m \in 1..(k - 1) : s[m] # c
         IN  <<SubSeq(s, 1, k - 1)>> \o Split(SubSeq(s, k + 1, Len(s)), c)

RECURSIVE Join(_, _)
\* c.join(parts)
Join(parts, c) ==
    IF parts = <<>> THEN <<>>
    ELSE IF Len(parts) = 1 THEN parts[1]
    ELSE parts[1] \o <<c>> \o Join(Tail(parts), c)

RECURSIVE Replace(_, _, _)
\* s.replace(old, new), old not empty
Replace(s, old, new) ==
    IF Len(s) < Len(old) THEN s
    ELSE IF StartsWith(s, old) THEN new \o Replace(SubSeq(s, Len(old) + 1, Len(s)), old, new)
    ELSE <<s[1]>> \o Replace(Tail(s), old, new)

Digit(d) == Alphabet[d + 3]

RECURSIVE Decimal(_)
Decimal(n) == IF n < 10 THEN <<Digit(n)>> ELSE Decimal(n \div 10) \o <<Digit(n % 10)>>

\* f"{i:03d}"
Format03d(i) ==
    LET ds == Decimal(i)
    IN  IF Len(ds) >= 3 THEN ds ELSE [k \in 1..(3 - Len(ds)) |-> "0"] \o ds

\* os.path.join(a, b) for two components
os_path_join(a, b) ==
    IF StartsWith(b, <<"/">>) THEN b
    ELSE IF a = <<>> \/ a[Len(a)] = "/" THEN a \o b
    ELSE a \o <<"/">> \o b

\* os.path.basename(p)
os_path_basename(p) == LET parts == Split(p, "/") IN parts[Len(parts)]

\* os.path.dirname(p)
os_path_dirname(p) ==
    LET parts == Split(p, "/")
        head  == Join(SubSeq(parts, 1, Len(parts) - 1), "/")
    IN  IF Len(parts) > 1 /\ head = <<>> THEN <<"/">> ELSE head

nii_gz == <<".", "n", "i", "i", ".", "g", "z">>
npz == <<".", "n", "p", "z">>

(***************************************************************************)
(* The inputs of a run.                                                    *)
(***************************************************************************)
\* root: the directory of the source volumes
root == <<"/", "r">>

\* dest: the destination directory, an absolute path
destination == <<"/", "d">>

\* read_split(split_dir, fold): the case identifiers of the fold
split_data == [train |-> << <<"a">> >>, val |-> << <<"b", "_", "c">> >>]

\* get_file_dict_nn(data_dir, cases, suffix): one file dict per case, its
\* label volume named by the case identifier
get_file_dict_nn(data_dir, cases, suffix) ==
    [k \in 1..Len(cases) |-> [label |-> os_path_join(data_dir, cases[k] \o suffix)]]

\* the archive contents np.load and the array reads tell apart:
\*   "ok"       both arrays deserialize
\*   "partial"  no readable archive (zero bytes, a write cut short):
\*              np.load itself raises
\*   "badarr"   np.load opens the archive, reading an array raises
Contents == {"ok", "partial", "badarr"}

NoFiles == [n \in {} |-> "ok"]

NoReport == [raised |-> "none", examined |-> {}, reported |-> {}]

Range(f) == {f[k] : k \in DOMAIN f}

Reverse(q) == [k \in 1..Len(q) |-> q[Len(q) + 1 - k]]

\* os.listdir(path) of an existing directory: the names in the order the
\* file system keeps them, which is ascending or descending by name here
os_listdir(d) == {SortStrs(DOMAIN d.files), Reverse(SortStrs(DOMAIN d.files))}

\* list(S): the elements of a set in some order
Lists(S) == {q \in [1..Cardinality(S) -> S] : Range(q) = S}

(***************************************************************************)
(* ResampleDataset.__getitem__: names.                                     *)
(***************************************************************************)
\* the loop of __getitem__ stopping one sample short
SampleRangeShort(n) == 0..(n - 2)

\* the values of i in `for i in range(self.samples_per_file)`
SampleRange(n) == 0..(n - 1)

\* the label name cut at its first underscore
LabelBaseFirstPart(file_path) ==
    Split(os_path_basename(Replace(file_path.label, nii_gz, <<>>)), "_")[1]

label_base(file_path) ==
    LET label_name == LET parts == Split(Replace(file_path.label, nii_gz, <<>>), "/")
                      IN  parts[Len(parts)]
    IN  os_path_basename(label_name)

\* the archive name built without the loop variable
OutputPathNoIndex(file_path, i) ==
    os_path_join(destination, label_base(file_path) \o <<"_">> \o Format03d(0) \o npz)

output_path(file_path, i) ==
    os_path_join(destination, label_base(file_path) \o <<"_">> \o Format03d(i) \o npz)

\* the name in the destination directory a path denotes, <<>> when the
\* path is no entry of that directory
NameIn(path) ==
    LET d == destination \o <<"/">>
    IN  IF StartsWith(path, d) /\ os_path_dirname(path) = destination
        THEN SubSeq(path, Len(d) + 1, Len(path))
        ELSE <<>>

os_path_exists(d, path) == d.exists /\ NameIn(path) \in DOMAIN d.files

\* np.load(path): "FileNotFoundError", "BadZipFile" (no archive can be
\* read from the bytes), or "none" when an NpzFile is returned
np_load(d, path) ==
    IF ~os_path_exists(d, path) THEN "FileNotFoundError"
    ELSE IF d.files[NameIn(path)] = "partial" THEN "BadZipFile"
    ELSE "none"

\* data["input"], data["label"] of an opened archive deserialize
ArraysLoad(d, path) == d.files[NameIn(path)] = "ok"

(***************************************************************************)
(* ResampleDataset.resume_preprocessing.                                   *)
(***************************************************************************)
\* the name cut at its first underscore
PrefixFirstPart(name) == Split(name, "_")[1]

\* "_".join(i.split("_")[:-1])
Prefix(name) ==
    LET parts == Split(name, "_") IN Join(SubSeq(parts, 1, Len(parts) - 1), "_")

\* np.unique(..., return_counts=True): the count of a prefix in the listing
CountOf(d, p) == Cardinality({name \in DOMAIN d.files : Prefix(name) = p})

\* list(unique_files[counts == self.samples_per_file]); np.unique sorts
CompleteCount(d, n) ==
    SortStrs({p \in {Prefix(name) : name \in DOMAIN d.files} : CountOf(d, p) = n})

\* os.path.join(self.destination, f"{i}_{self.samples_per_file - 1:03d}.npz")
test_file(i, n) == os_path_join(destination, i \o <<"_">> \o Format03d(n - 1) \o npz)

\* valid_files.pop(j)
Pop(v, j) == SubSeq(v, 1, j) \o SubSeq(v, j + 2, Len(v))

RECURSIVE ValidateLoop(_, _, _, _)
\* `for j, i in enumerate(valid_files)`: v is the list as the loop has changed
\* it so far, j the position the list iterator is at (counted from 0).
\* np.load stands before the try, so what it raises leaves the function.
ValidateLoop(d, n, v, j) ==
    IF j >= Len(v) THEN [raised |-> "none", valid_files |-> v]
    ELSE LET i == v[j + 1]
             opened == np_load(d, test_file(i, n))
         IN  IF opened # "none" THEN [raised |-> opened, valid_files |-> v]
             ELSE IF ArraysLoad(d, test_file(i, n))
                  THEN ValidateLoop(d, n, Append(v, test_file(i, n)), j + 1)
                  ELSE ValidateLoop(d, n, Pop(v, j), j + 1)

resume_preprocessing(d, n) ==
    IF ~d.exists THEN [raised |-> "FileNotFoundError", valid_files |-> <<>>]
    ELSE ValidateLoop(d, n, CompleteCount(d, n), 0)

(***************************************************************************)
(* test_integrity.                                                         *)
(***************************************************************************)
RECURSIVE IntegrityLoop(_, _, _)
\* `for filename in os.listdir(dir_path)`: listing is what is left of the
\* listing, r what the loop has done so far
IntegrityLoop(d, listing, r) ==
    IF listing = <<>> THEN r
    ELSE LET filename == listing[1]
             file_path == os_path_join(destination, filename)
             seen == [r EXCEPT !.examined = @ \cup {filename}]
         IN  IF ~os_path_exists(d, file_path)
             THEN [seen EXCEPT !.raised = "FileNotFoundError"]
             ELSE IF np_load(d, file_path) # "none"
             THEN [seen EXCEPT !.raised = np_load(d, file_path)]
             ELSE IF ArraysLoad(d, file_path)
             THEN IntegrityLoop(d, Tail(listing), seen)
             ELSE IntegrityLoop(d, Tail(listing),
                                [seen EXCEPT !.reported = @ \cup {filename}])

\* listing: os.listdir(dir_path), in the order the file system gave it
test_integrity(d, listing) ==
    IF ~d.exists THEN [NoReport EXCEPT !.raised = "FileNotFoundError"]
    ELSE IntegrityLoop(d, listing, NoReport)

(***************************************************************************)
(* The state machine.                                                      *)
(***************************************************************************)
train_val_data == split_data.train \o split_data.val

\* preprocess_augmentations.py and preprocess_outlier_augmentations.py, the
\* latter run with outlier_detection_fn=outlier_model.detect
Scripts == {"augmentations", "outlier"}

\* whether __init__ has set self.outlier_detection_fn: it takes the
\* parameter and assigns it to no attribute
HasOutlierDetectionFn == FALSE

\* the processes that run __getitem__ on a work list of `batches` entries:
\* the DataLoader's workers that are sent a batch, or the main process
\* itself when num_workers is 0
Workers(n, batches) ==
    LET procs == IF n = 0 THEN 1 ELSE n
    IN  1..(IF procs <= batches THEN procs ELSE batches)

\* the case list left as it was read
SubtractNothing(cases, valid) == Range(cases)

\* set(train_val_data) - set(valid_files)
Subtract(cases, valid) == Range(cases) \ Range(valid)

\* a worker at the transform waiting for the lock to be free
TransformUnderLock(k) == pc[k] = "transform" /\ lock = 0

\* the worker is at `image, label = self.transform(file_path)`
TransformReady(k) == pc[k] = "transform"

\* a with block that keeps the lock when it is left
LockKept == lock

\* `with self.lock:` left, by the end of its body or by an exception
LockReleased == 0

\* a lock that never makes a worker wait
LockFreeAlways == TRUE

\* `with self.lock`: the lock can be taken
LockFree == lock = 0

Init ==
    /\ dest = [exists |-> FALSE, files |-> NoFiles]
    /\ status = "idle"
    /\ resume = FALSE
    /\ samples_per_file = 1
    /\ valid_files = <<>>
    /\ files = <<>>
    /\ pc = <<>>
    /\ task = <<>>
    /\ idx = <<>>
    /\ lock = 0
    /\ dest0 = dest
    /\ written = {}
    /\ report = NoReport
    /\ dir_listing = <<>>
    /\ script = "augmentations"
    /\ verdicts = NoFiles

\* ResampleDataset.__init__ and DataLoader(ds, batch_size=1, shuffle=False,
\* num_workers=worker): the resume scan, the work list, the lock, and the
\* workers, batch k of the loader going to worker k mod num_workers
Start(s, r, n, w) ==
    /\ status = "idle"
    /\ script' = s
    /\ verdicts' = NoFiles
    /\ resume' = r
    /\ samples_per_file' = n
    /\ dest0' = dest
    /\ written' = {}
    /\ report' = NoReport
    /\ dir_listing' = <<>>
    /\ lock' = 0
    /\ UNCHANGED dest
    /\ LET scan == IF r THEN resume_preprocessing(dest, n)
                   ELSE [raised |-> "none", valid_files |-> <<>>]
       IN  IF scan.raised # "none"
           THEN /\ status' = "ctor_raised"
                /\ valid_files' = <<>>
                /\ files' = <<>>
                /\ pc' = <<>>
                /\ task' = <<>>
                /\ idx' = <<>>
           ELSE /\ status' = "running"
                /\ valid_files' = scan.valid_files
                /\ \E cases \in (IF r THEN Lists(Subtract(train_val_data, scan.valid_files))
                                 ELSE {train_val_data}) :
                       files' = get_file_dict_nn(root, cases, nii_gz)
                /\ pc' = [k \in Workers(w, Len(files')) |-> "transform"]
                /\ task' = [k \in Workers(w, Len(files')) |-> k]
                /\ idx' = [k \in Workers(w, Len(files')) |-> 0]

\* __getitem__, `image, label = self.transform(file_path)`
Transform(k) ==
    /\ status = "running"
    /\ TransformReady(k)
    /\ pc' = [pc EXCEPT ![k] = IF script = "outlier" THEN "filter" ELSE "makedirs"]
    /\ UNCHANGED <<dest, status, script, resume, samples_per_file, valid_files,
                   files, task, idx, lock, dest0, written, report, dir_listing, verdicts>>

\* preprocess_outlier_augmentations.py, __getitem__: `if
\* self.outlier_detection_fn is not None: if self.outlier_detection_fn(image):
\* continue`. Reading an attribute that was never set raises AttributeError
\* out of __getitem__.
Filter(k) ==
    /\ status = "running"
    /\ pc[k] = "filter"
    /\ IF ~HasOutlierDetectionFn
       THEN /\ pc' = [pc EXCEPT ![k] = "AttributeError"]
            /\ task' = [task EXCEPT ![k] = 0]
            /\ idx' = [idx EXCEPT ![k] = 0]
            /\ UNCHANGED verdicts
       ELSE \E reject \in BOOLEAN :
               /\ verdicts' = [m \in DOMAIN verdicts
                                      \cup {NameIn(output_path(files[task[k]], idx[k]))} |->
                                  IF m = NameIn(output_path(files[task[k]], idx[k]))
                                  THEN reject ELSE verdicts[m]]
               /\ IF ~reject
                  THEN /\ pc' = [pc EXCEPT ![k] = "makedirs"]
                       /\ UNCHANGED <<task, idx>>
                  ELSE IF idx[k] + 1 \in SampleRange(samples_per_file)
                  THEN /\ idx' = [idx EXCEPT ![k] = @ + 1]
                       /\ pc' = [pc EXCEPT ![k] = "transform"]
                       /\ UNCHANGED task
                  ELSE /\ idx' = [idx EXCEPT ![k] = 0]
                       /\ task' = [task EXCEPT ![k] = @ + Len(pc)]
                       /\ pc' = [pc EXCEPT ![k] =
                                    IF task'[k] <= Len(files) THEN "transform" ELSE "done"]
    /\ UNCHANGED <<dest, status, script, resume, samples_per_file, valid_files,
                   files, lock, dest0, written, report, dir_listing>>

\* __getitem__, the output path and os.makedirs(..., exist_ok=True)
Makedirs(k) ==
    /\ status = "running"
    /\ pc[k] = "makedirs"
    /\ dest' = [dest EXCEPT !.exists =
                   @ \/ os_path_dirname(output_path(files[task[k]], idx[k])) = destination]
    /\ pc' = [pc EXCEPT ![k] = "lock"]
    /\ UNCHANGED <<status, script, resume, samples_per_file, valid_files,
                   files, task, idx, lock, dest0, written, report, dir_listing, verdicts>>

\* __getitem__, `with self.lock:` entered and np.savez_compressed opening
\* the output file for writing: the file is there, its archive is not yet
Acquire(k) ==
    /\ status = "running"
    /\ pc[k] = "lock"
    /\ LockFree
    /\ lock' = k
    /\ LET name == NameIn(output_path(files[task[k]], idx[k]))
       IN  /\ dest' = [dest EXCEPT !.files =
                          [m \in DOMAIN @ \cup {name} |-> IF m = name THEN "partial" ELSE @[m]]]
           /\ written' = written \cup {name}
    /\ pc' = [pc EXCEPT ![k] = "write"]
    /\ UNCHANGED <<status, script, resume, samples_per_file, valid_files,
                   files, task, idx, dest0, report, dir_listing, verdicts>>

\* __getitem__, np.savez_compressed returning and the with block left; then
\* the next i, or `return image, label` and the worker's next batch
Save(k) ==
    /\ status = "running"
    /\ pc[k] = "write"
    /\ LET name == NameIn(output_path(files[task[k]], idx[k]))
       IN  dest' = [dest EXCEPT !.files[name] = "ok"]
    /\ lock' = LockReleased
    /\ IF idx[k] + 1 \in SampleRange(samples_per_file)
       THEN /\ idx' = [idx EXCEPT ![k] = @ + 1]
            /\ pc' = [pc EXCEPT ![k] = "transform"]
            /\ UNCHANGED task
       ELSE /\ idx' = [idx EXCEPT ![k] = 0]
            /\ task' = [task EXCEPT ![k] = @ + Len(pc)]
            /\ pc' = [pc EXCEPT ![k] =
                         IF task'[k] <= Len(files) THEN "transform" ELSE "done"]
    /\ UNCHANGED <<status, script, resume, samples_per_file, valid_files,
                   files, dest0, written, report, dir_listing, verdicts>>

\* __getitem__, np.savez_compressed raises a file system error (the disk is
\* full): the with block releases the lock, nothing in __getitem__ catches
\* the error, and what was written of the archive stays. The worker has
\* left __getitem__: its file_path and i are gone.
WriteFail(k) ==
    /\ status = "running"
    /\ pc[k] = "write"
    /\ lock' = LockReleased
    /\ pc' = [pc EXCEPT ![k] = "OSError"]
    /\ task' = [task EXCEPT ![k] = 0]
    /\ idx' = [idx EXCEPT ![k] = 0]
    /\ UNCHANGED <<dest, status, script, resume, samples_per_file, valid_files,
                   files, dest0, written, report, dir_listing, verdicts>>

\* __main__, `for _ in tqdm(dataloader, ...)`: the exception of a task
\* reaches the loop and ends the script
Surface ==
    /\ status = "running"
    /\ \E k \in DOMAIN pc : pc[k] \in {"AttributeError", "OSError"}
    /\ status' = "task_raised"
    /\ lock' = 0
    /\ pc' = <<>>
    /\ task' = <<>>
    /\ idx' = <<>>
    /\ UNCHANGED <<dest, script, resume, samples_per_file, valid_files,
                   files, dest0, written, report, dir_listing, verdicts>>

\* a loop over the dataloader that ends before the batches are in
LoaderExhaustedEarly == TRUE

\* __main__, `for _ in tqdm(dataloader, ...)` has ended: every batch has
\* been returned
LoaderExhausted == \A k \in DOMAIN pc : pc[k] = "done"

\* __main__, test_integrity(dest) is called and lists the directory
List ==
    /\ status = "running"
    /\ LoaderExhausted
    /\ status' = "verifying"
    /\ dir_listing' \in (IF dest.exists THEN os_listdir(dest) ELSE {<<>>})
    /\ UNCHANGED <<dest, script, resume, samples_per_file, valid_files, files,
                   pc, task, idx, lock, dest0, written, report, verdicts>>

\* while test_integrity is between its listing and its loop, another
\* process removes one file of the directory, the newest archive of a Case
Unlink(name) ==
    /\ status = "verifying"
    /\ Range(dir_listing) = DOMAIN dest.files
    /\ name \in DOMAIN dest.files
    /\ \A m \in DOMAIN dest.files : Prefix(m) = Prefix(name) => ~StrLess(name, m)
    /\ dest' = [dest EXCEPT !.files = [m \in DOMAIN @ \ {name} |-> @[m]]]
    /\ UNCHANGED <<status, script, resume, samples_per_file, valid_files, files,
                   pc, task, idx, lock, dest0, written, report, dir_listing, verdicts>>

\* the directory a call of test_integrity leaves, every file having been
\* opened for reading only
DirectoryRepaired(d, r) ==
    [d EXCEPT !.files = [m \in DOMAIN @ \ r.reported |-> @[m]]]

DirectoryAfterIntegrity(d, r) == d

\* test_integrity, the loop over the listing
Verify ==
    /\ status = "verifying"
    /\ report' = test_integrity(dest, dir_listing)
    /\ dest' = DirectoryAfterIntegrity(dest, report')
    /\ status' = IF report'.raised = "none" THEN "completed" ELSE "verify_raised"
    /\ pc' = <<>>
    /\ task' = <<>>
    /\ idx' = <<>>
    /\ UNCHANGED <<script, resume, samples_per_file, valid_files,
                   files, lock, dest0, written, dir_listing, verdicts>>

\* the run is interrupted: every process of it ends where it is
Interrupt ==
    /\ status \in {"running", "verifying"}
    /\ status' = "killed"
    /\ lock' = 0
    /\ pc' = <<>>
    /\ task' = <<>>
    /\ idx' = <<>>
    /\ UNCHANGED <<dest, script, resume, samples_per_file, valid_files,
                   files, dest0, written, report, dir_listing, verdicts>>

\* the process has ended (normally, by an exception or by the interrupt):
\* nothing of it is left but the destination directory
Exit ==
    /\ status \in {"killed", "ctor_raised", "task_raised", "completed", "verify_raised"}
    /\ status' = "idle"
    /\ resume' = FALSE
    /\ samples_per_file' = 1
    /\ valid_files' = <<>>
    /\ files' = <<>>
    /\ dest0' = dest
    /\ written' = {}
    /\ report' = NoReport
    /\ dir_listing' = <<>>
    /\ script' = "augmentations"
    /\ verdicts' = NoFiles
    /\ UNCHANGED <<dest, pc, task, idx, lock>>

\* between two runs, the bytes of an archive are damaged on the disk: the
\* archive still opens, its arrays no longer deserialize; the directory holds
\* one such archive at a time
BitRot(name) ==
    /\ status = "idle"
    /\ name \in DOMAIN dest.files
    /\ dest.files[name] = "ok"
    /\ \A m \in DOMAIN dest.files : dest.files[m] # "badarr"
    /\ dest'= [dest EXCEPT !.files[name] = "badarr"]
    /\ dest0' = dest'
    /\ UNCHANGED <<status, script, resume, samples_per_file, valid_files, files,
                   pc, task, idx, lock, written, report, dir_listing, verdicts>>

\* the steps of one run of a script, from its start to its end
RunNext ==
    \/ \E s \in Scripts, r \in BOOLEAN, n \in 1..MaxSamples, w \in 0..MaxWorkers :
           Start(s, r, n, w)
    \/ \E k \in DOMAIN pc : Transform(k)
    \/ \E k \in DOMAIN pc : Filter(k)
    \/ \E k \in DOMAIN pc : Makedirs(k)
    \/ \E k \in DOMAIN pc : Acquire(k)
    \/ \E k \in DOMAIN pc : Save(k)
    \/ \E k \in DOMAIN pc : WriteFail(k)
    \/ Surface
    \/ List
    \/ \E name \in DOMAIN dest.files : Unlink(name)
    \/ Verify
    \/ Interrupt

Next ==
    \/ RunNext
    \/ Exit
    \/ \E name \in DOMAIN dest.files : BitRot(name)

Spec == Init /\ [][Next]_vars

Cases == Range(train_val_data)

\* the file dict of a Case and the label_base __getitem__ derives from it
FileDictOf(c) == get_file_dict_nn(root, <<c>>, nii_gz)[1]
\* the directories a run is followed from to its end: none, and one with
\* a whole archive of the first Case and a damaged one of the second
LiveDirs ==
    {[exists |-> FALSE, files |-> NoFiles],
     [exists |-> TRUE,
      files |-> [name \in {NameIn(output_path(FileDictOf(c), 0)) : c \in Cases} |->
                    IF name = NameIn(output_path(FileDictOf(train_val_data[1]), 0))
                    THEN "ok" ELSE "badarr"]]}

LiveInit ==
    /\ dest \in LiveDirs
    /\ status = "idle"
    /\ script = "augmentations"
    /\ resume = FALSE
    /\ samples_per_file = 1
    /\ valid_files = <<>>
    /\ files = <<>>
    /\ pc = <<>>
    /\ task = <<>>
    /\ idx = <<>>
    /\ lock = 0
    /\ dest0 = dest
    /\ written = {}
    /\ report = NoReport
    /\ dir_listing = <<>>
    /\ verdicts = NoFiles

\* where a worker can be in __getitem__
PcValues ==
    {"transform", "filter", "makedirs", "lock", "write", "done", "AttributeError", "OSError"}

\* a step of worker k in __getitem__ other than a write that fails, told by
\* its pc: the worker is at a statement, at `with self.lock:` only with the
\* lock free, and leaves it
Worker(k) ==
    /\ status = "running"
    /\ k \in DOMAIN pc
    /\ \/ pc[k] \in {"transform", "filter", "makedirs", "write"}
       \/ pc[k] = "lock" /\ LockFree
    /\ \E v \in PcValues \ {pc[k], "OSError"} : pc' = [pc EXCEPT ![k] = v]

\* a step of the main process in __main__, told by status: out of the loop
\* over the dataloader into test_integrity, out of it by the exception of a
\* task, or to the end of test_integrity
Main ==
    \/ /\ status = "running"
       /\ \A k \in DOMAIN pc : pc[k] = "done"
       /\ status' = "verifying"
    \/ /\ status = "running"
       /\ \E k \in DOMAIN pc : pc[k] \in {"AttributeError", "OSError"}
       /\ status' = "task_raised"
    \/ /\ status = "verifying"
       /\ status' \in {"completed", "verify_raised"}

\* every process of the run is scheduled: a worker that can take a step
\* takes it, and so does the main process in its loop and in test_integrity
LiveSpec ==
    /\ LiveInit
    /\ [][RunNext]_vars
    /\ \A k \in 1..MaxWorkers : WF_pc(Worker(k))
    /\ WF_status(Main)

(***************************************************************************)
(* The naming of __getitem__ and the prefixes of resume_preprocessing, on  *)
(* case identifiers drawn from the strings over "a" and "_".               *)
(***************************************************************************)
RECURSIVE Strings(_)
\* the strings over "a" and "_" of a length up to n, the empty one included
Strings(n) ==
    IF n = 0 THEN {<<>>}
    ELSE Strings(n - 1) \cup {Append(t, c) : t \in Strings(n - 1), c \in {"a", "_"}}

\* the case identifiers read_split can return
CaseIds == Strings(MaxBaseLen) \ {<<>>}

\* a destination directory that is there and empty, and a work list of two
\* Cases
NamingInit ==
    /\ dest = [exists |-> TRUE, files |-> NoFiles]
    /\ status = "idle"
    /\ script = "augmentations"
    /\ resume = TRUE
    /\ samples_per_file \in 1..MaxSamples
    /\ valid_files = <<>>
    /\ \E c1, c2 \in CaseIds :
          /\ StrLess(c1, c2)
          /\ files = get_file_dict_nn(root, <<c1, c2>>, nii_gz)
    /\ pc = <<>>
    /\ task = <<>>
    /\ idx = <<>>
    /\ lock = 0
    /\ dest0 = dest
    /\ written = {}
    /\ report = NoReport
    /\ dir_listing = <<>>
    /\ verdicts = NoFiles

\* __getitem__ on self.files[c], the pass i of its loop: the archive is
\* written under the name built from the label and i
GetItemWrite(c, i) ==
    /\ LET name == NameIn(output_path(files[c], i))
       IN  /\ dest' = [dest EXCEPT !.files =
                          [m \in DOMAIN @ \cup {name} |-> IF m = name THEN "ok" ELSE @[m]]]
           /\ written' = written \cup {name}
    /\ UNCHANGED <<status, script, resume, samples_per_file, valid_files, files,
                   pc, task, idx, lock, dest0, report, dir_listing, verdicts>>

\* resume_preprocessing up to its loop: the prefixes of the listing that
\* have samples_per_file files
ScanPrefixes ==
    /\ valid_files' = CompleteCount(dest, samples_per_file)
    /\ UNCHANGED <<dest, status, script, resume, samples_per_file, files,
                   pc, task, idx, lock, dest0, written, report, dir_listing, verdicts>>

NamingNext ==
    \/ \E c \in DOMAIN files, i \in SampleRange(samples_per_file) : GetItemWrite(c, i)
    \/ ScanPrefixes

NamingSpec == NamingInit /\ [][NamingNext]_vars

(***************************************************************************)
(* What the claims speak of.                                               *)
(***************************************************************************)
LabelBaseOf(c) == label_base(FileDictOf(c))

\* `{label_base}_{i:03d}.npz` for i in [0, n)
ArchiveNames(base, n) == {base \o <<"_">> \o Format03d(i) \o npz : i \in 0..(n - 1)}

\* the archives of a directory whose prefix is `base`
ArchivesOf(d, base) == {name \in DOMAIN d.files : Prefix(name) = base}

Dispatched(c) == FileDictOf(c) \in Range(files)
Skipped(c) == LabelBaseOf(c) \in Range(valid_files)

Started ==
    status \in {"running", "verifying", "killed", "ctor_raised", "task_raised",
                "completed", "verify_raised"}
Constructed ==
    status \in {"running", "verifying", "killed", "task_raised", "completed", "verify_raised"}

\* a file test_integrity listed has been removed since
Removed ==
    status \in {"verifying", "completed", "verify_raised"} /\ Range(dir_listing) # DOMAIN dest.files

\* every dispatched task has completed, and the directory is as the tasks
\* left it
TasksDone ==
    \/ status = "running" /\ \A k \in DOMAIN pc : pc[k] = "done"
    \/ status \in {"verifying", "completed", "verify_raised"} /\ ~Removed

\* the final archive of a prefix, as the resume scan names it
FinalName(base, n) == base \o <<"_">> \o Format03d(n - 1) \o npz

\* the prefix has exactly n archives
CountComplete(d, base, n) == Cardinality(ArchivesOf(d, base)) = n

\* the final archive of the prefix is there and deserializes into both arrays
FinalGood(d, base, n) ==
    FinalName(base, n) \in DOMAIN d.files /\ d.files[FinalName(base, n)] = "ok"

\* the prefixes of a directory that are verified-complete
VerifiedComplete(d, n) ==
    {p \in {Prefix(name) : name \in DOMAIN d.files} :
        CountComplete(d, p, n) /\ FinalGood(d, p, n)}

(***************************************************************************)
(* C1. Run with resume=false, no outlier filter: once every dispatched     *)
(* task has completed, the destination directory holds for every Case of   *)
(* the work list exactly the samples_per_file archives of its label_base,  *)
(* indices 000 .. samples_per_file-1.                                      *)
(***************************************************************************)
ExactArchives(c) ==
    ArchivesOf(dest, LabelBaseOf(c)) = ArchiveNames(LabelBaseOf(c), samples_per_file)

\* C1 as claimed: after every run with resume=false whose tasks have all
\* completed, every Case has exactly its samples_per_file archives
C1_ExactArchivesAfterAnyRun ==
    (TasksDone /\ ~resume) => \A c \in Cases : ExactArchives(c)

\* the directory held, when the run started, no archive of the Case's
\* prefix other than those the run writes
NoStaleArchives(c) ==
    ArchivesOf(dest0, LabelBaseOf(c)) \subseteq ArchiveNames(LabelBaseOf(c), samples_per_file)

\* C1 as amended: after a run with resume=false whose tasks have all
\* completed, every Case whose prefix had no archive of an index >=
\* samples_per_file when the run started has exactly its samples_per_file
\* archives, indices 000 .. samples_per_file-1
C1_ExactArchivesWithoutStale ==
    (TasksDone /\ ~resume) => \A c \in Cases : NoStaleArchives(c) => ExactArchives(c)

\* C1 witness: two workers have finished a run with resume=false and two
\* samples per file on a directory without stale archives
C1_Witness ==
    /\ status = "running" /\ Len(pc) = 2 /\ \A k \in DOMAIN pc : pc[k] = "done"
    /\ ~resume /\ samples_per_file = 2
    /\ \A c \in Cases : NoStaleArchives(c) /\ ExactArchives(c)

(***************************************************************************)
(* C2. resume=true: every Case the resume scan returns is taken from the   *)
(* Case list before dispatch, no task runs for it and none of its archives *)
(* is written during the run; every other Case is dispatched.              *)
(***************************************************************************)
\* C2: in a run with resume=true, a Case whose prefix the scan returned is
\* not in the work list, no worker works on it and none of its archives is
\* written; a Case whose prefix the scan did not return is in the work list
C2_SkippedNeverRegenerated ==
    (Constructed /\ resume) =>
        \A c \in Cases :
            IF Skipped(c)
            THEN /\ ~Dispatched(c)
                 /\ \A k \in DOMAIN pc :
                        task[k] \in DOMAIN files => files[task[k]] # FileDictOf(c)
                 /\ written \cap ArchiveNames(LabelBaseOf(c), samples_per_file) = {}
            ELSE Dispatched(c)

\* C2 witness: a run with resume=true has completed in which one Case was
\* skipped and the archives of another were written
C2_Witness ==
    /\ status = "completed" /\ resume
    /\ \E c \in Cases : Skipped(c)
    /\ \E c \in Cases : ~Skipped(c) /\ ArchiveNames(LabelBaseOf(c), samples_per_file) \subseteq written

(***************************************************************************)
(* C3. A run interrupted after M < K archives of a Case, then a rerun with *)
(* resume=true that runs to completion: the Case is classified incomplete, *)
(* dispatched again, and ends with exactly K archives, indices 0..K-1.     *)
(***************************************************************************)
\* what an interrupted run leaves of a Case: the archives of the indices
\* below some M < n, the last of them possibly cut short
Interrupted(c, n) ==
    \E M \in 0..(n - 1) : ArchivesOf(dest0, LabelBaseOf(c)) = ArchiveNames(LabelBaseOf(c), M)

\* C3: when a run with resume=true has run to completion, every Case that
\* had M < samples_per_file archives when it started was not returned by
\* the scan, was dispatched, and has exactly the archives 0..K-1, each of
\* them whole
C3_InterruptedCaseRegenerated ==
    (TasksDone /\ resume) =>
        \A c \in Cases :
            Interrupted(c, samples_per_file) =>
                /\ ~Skipped(c)
                /\ Dispatched(c)
                /\ ExactArchives(c)
                /\ \A name \in ArchivesOf(dest, LabelBaseOf(c)) : dest.files[name] = "ok"

\* C3 witness: a rerun with resume=true and two samples per file has
\* completed for a Case of which one archive was there when it started
C3_Witness ==
    /\ status = "completed" /\ resume /\ samples_per_file = 2
    /\ \E c \in Cases :
          /\ ArchivesOf(dest0, LabelBaseOf(c)) = ArchiveNames(LabelBaseOf(c), 1)
          /\ \A name \in ArchivesOf(dest0, LabelBaseOf(c)) : dest0.files[name] = "ok"
          /\ ExactArchives(c)

(***************************************************************************)
(* C4. Resume scan: a prefix with exactly samples_per_file archives whose  *)
(* final archive cannot be opened or deserialized is treated as            *)
(* incomplete: not returned, its Case dispatched, all its archives         *)
(* regenerated.                                                            *)
(***************************************************************************)
\* the prefix has the complete count and a final archive that is there but
\* does not load
CorruptFinal(d, base, n) ==
    /\ CountComplete(d, base, n)
    /\ FinalName(base, n) \in DOMAIN d.files
    /\ d.files[FinalName(base, n)] # "ok"

\* C4 as claimed: a run with resume=true that finds a Case with the
\* complete count and a final archive that does not load constructs its
\* work list, does not return the Case's prefix, dispatches the Case and,
\* when its tasks have completed, has written all its archives anew
C4_CorruptFinalRegenerated ==
    \A c \in Cases :
        (Started /\ resume /\ CorruptFinal(dest0, LabelBaseOf(c), samples_per_file)) =>
            /\ status # "ctor_raised"
            /\ ~Skipped(c)
            /\ Dispatched(c)
            /\ TasksDone => ArchiveNames(LabelBaseOf(c), samples_per_file) \subseteq written

(***************************************************************************)
(* C5. For every content of the destination directory the resume scan      *)
(* returns exactly the prefixes with exactly samples_per_file archives     *)
(* whose final archive deserializes into both arrays.                      *)
(***************************************************************************)
\* C5 as claimed: a run with resume=true gets from the scan exactly the
\* verified-complete prefixes of the directory it started on
C5_ScanReturnsVerifiedComplete ==
    (Started /\ resume /\ dest0.exists) =>
        /\ status # "ctor_raised"
        /\ Range(valid_files) = VerifiedComplete(dest0, samples_per_file)

(***************************************************************************)
(* C6. A failure to deserialize the final archive of one complete-count    *)
(* prefix is caught, removes that prefix alone and does not abort the      *)
(* scan: every other complete-count prefix is kept iff its own final       *)
(* archive is good.                                                        *)
(***************************************************************************)
\* C6 as claimed: when some Case has the complete count and a final
\* archive that does not load, the scan still returns, and of the Cases
\* with the complete count it returns those whose final archive is good
C6_FailureDemotesOnePrefix ==
    (/\ Started /\ resume
     /\ \E c \in Cases : CorruptFinal(dest0, LabelBaseOf(c), samples_per_file)) =>
        /\ status # "ctor_raised"
        /\ \A c \in Cases :
               CountComplete(dest0, LabelBaseOf(c), samples_per_file) =>
                   (Skipped(c) <=> FinalGood(dest0, LabelBaseOf(c), samples_per_file))

(***************************************************************************)
(* C7. resume=true and no destination directory: the scan yields the       *)
(* empty valid set without raising, and the full Case list is dispatched.  *)
(***************************************************************************)
\* C7 as claimed: a run with resume=true started without a destination
\* directory constructs its work list, with nothing returned by the scan
\* and every Case dispatched
C7_MissingDirectoryNothingResumed ==
    (Started /\ resume /\ ~dest0.exists) =>
        /\ status # "ctor_raised"
        /\ valid_files = <<>>
        /\ \A c \in Cases : Dispatched(c)

(***************************************************************************)
(* C8. At most one worker executes an archive write at a time: a worker    *)
(* writes only while it holds the shared lock, and at most one worker      *)
(* holds it.                                                               *)
(***************************************************************************)
Writing(k) == pc[k] = "write"

\* C8: a worker that is writing an archive holds the lock, and no two
\* workers are writing at the same time
C8_OneWriterUnderLock ==
    /\ \A k \in DOMAIN pc : Writing(k) => lock = k
    /\ \A k1, k2 \in DOMAIN pc : (Writing(k1) /\ Writing(k2)) => k1 = k2

\* C8 witness: one worker is writing while another waits for the lock
C8_Witness ==
    \E k1, k2 \in DOMAIN pc : k1 # k2 /\ Writing(k1) /\ lock = k1 /\ pc[k2] = "lock"

(***************************************************************************)
(* C9. Directory creation and archive write form one critical section: a   *)
(* worker creates the directory only while holding the lock, so no two     *)
(* workers are at once in (directory creation or archive write).           *)
(***************************************************************************)
InSection(k) == pc[k] = "makedirs" \/ pc[k] = "write"

\* C9 as claimed: a worker at the directory creation holds the lock, and
\* no two workers are at once at the directory creation or the write
C9_MakedirsUnderLock ==
    /\ \A k \in DOMAIN pc : pc[k] = "makedirs" => lock = k
    /\ \A k1, k2 \in DOMAIN pc : (InSection(k1) /\ InSection(k2)) => k1 = k2

(***************************************************************************)
(* C10. The integrity verifier examines every filename of the listing and  *)
(* reports exactly the archives that fail to open or deserialize; no       *)
(* failure propagates to the caller or stops the scan.                     *)
(***************************************************************************)
\* C10 as claimed: when test_integrity has ended, no file having been
\* removed under it, it has raised nothing, has examined every file of the
\* directory and has reported exactly the files that do not load
C10_VerifierReportsExactlyTheBad ==
    (status \in {"completed", "verify_raised"} /\ ~Removed) =>
        /\ report.raised = "none"
        /\ report.examined = DOMAIN dest.files
        /\ report.reported = {name \in DOMAIN dest.files : dest.files[name] # "ok"}

(***************************************************************************)
(* C11. A file of the listing that is gone when the verifier reaches it    *)
(* gets a 'missing' report distinct from a deserialization-error report,   *)
(* and the scan goes on to examine every remaining filename.               *)
(***************************************************************************)
\* C11 as claimed: when test_integrity has ended on a directory of which a
\* listed file was removed and every other file is whole, it has examined
\* every filename of its listing and has reported no missing file as a
\* deserialization error
C11_MissingFileDoesNotStopScan ==
    (/\ status \in {"completed", "verify_raised"}
     /\ Removed
     /\ \A name \in DOMAIN dest.files : dest.files[name] = "ok") =>
        /\ report.examined = Range(dir_listing)
        /\ report.reported \cap (Range(dir_listing) \ DOMAIN dest.files) = {}

(***************************************************************************)
(* C12. The integrity verifier is a read-only audit: the files of the      *)
(* directory and the content of each are the same after it as before it,   *)
(* corrupt archives included.                                              *)
(***************************************************************************)
\* C12: a step of test_integrity from its listing to its end leaves the
\* directory, its files and the content of each as they were
C12_VerifierReadOnly ==
    [][(status = "verifying" /\ status' \in {"completed", "verify_raised"}) => dest' = dest]_vars

\* C12 witness: test_integrity has ended having reported a corrupt archive,
\* which is still in the directory, as corrupt as it was
C12_Witness ==
    /\ status = "completed"
    /\ report.reported # {}
    /\ \A name \in report.reported : name \in DOMAIN dest.files /\ dest.files[name] = "badarr"

(***************************************************************************)
(* C13. With an outlier filter supplied, generate invokes it once per      *)
(* draw before any write of the draw; archive i is written iff the filter  *)
(* did not reject draw i; a filter rejecting every draw lets the run       *)
(* complete with no archive written.                                       *)
(***************************************************************************)
\* C13 as claimed: in a run of the outlier script no task ends by an
\* AttributeError, a worker past the filter has the filter's verdict on its
\* draw, and an archive is written only for a draw the filter did not reject
C13_FilterDecidesEachDraw ==
    script = "outlier" =>
        /\ \A k \in DOMAIN pc : pc[k] # "AttributeError"
        /\ \A k \in DOMAIN pc :
               pc[k] \in {"makedirs", "lock", "write"} =>
                   NameIn(output_path(files[task[k]], idx[k])) \in DOMAIN verdicts
        /\ \A name \in written : name \in DOMAIN verdicts /\ ~verdicts[name]

(***************************************************************************)
(* C14. A worker never holds the lock while it executes the transform: the *)
(* transform of one worker is never blocked by another worker's write, and *)
(* two workers can execute the transform at the same time.                 *)
(***************************************************************************)
\* C14: a worker at the transform does not hold the lock and can take its
\* step whoever holds the lock
C14_TransformOutsideLock ==
    \A k \in DOMAIN pc :
        (status = "running" /\ pc[k] = "transform") => (lock # k /\ ENABLED Transform(k))

\* C14 witness: two workers are at the transform at the same time, one of
\* them at its second sample
C14_Witness ==
    /\ status = "running"
    /\ \E k1, k2 \in DOMAIN pc :
          k1 # k2 /\ pc[k1] = "transform" /\ pc[k2] = "transform" /\ idx[k1] = 1

(***************************************************************************)
(* C15. The verifier starts only after every dispatched task has           *)
(* completed: it is never scanning while a worker is generating or         *)
(* writing, and when no task fails it is eventually run.                   *)
(***************************************************************************)
\* C15: whenever test_integrity is scanning, every worker has returned all
\* its batches; and every run that is under way ends with test_integrity
\* having run, unless a task raised or the run was interrupted
C15_VerifierAfterAllTasks ==
    /\ [](status = "verifying" => \A k \in DOMAIN pc : pc[k] = "done")
    /\ [](status = "running" =>
            <>(status \in {"completed", "verify_raised", "task_raised", "killed"}))

\* C15 witness: test_integrity is scanning after two workers have written
\* the two archives of their Cases
C15_Witness ==
    /\ status = "verifying" /\ Len(pc) = 2 /\ samples_per_file = 2
    /\ \A c \in Cases : ArchiveNames(LabelBaseOf(c), 2) \subseteq written

(***************************************************************************)
(* C16. An archive write that fails inside the critical section is not     *)
(* caught by generate: the owning task aborts, the lock is released, and   *)
(* every other task can still take the lock and complete its writes.       *)
(***************************************************************************)
\* C16: the lock is held only by a worker that is writing; a worker whose
\* write raised takes no further step of __getitem__; and a worker waiting
\* for the lock can take it whenever no worker is writing
C16_WriteFailureReleasesLock ==
    /\ lock # 0 => (lock \in DOMAIN pc /\ pc[lock] = "write")
    /\ \A k \in DOMAIN pc :
           pc[k] = "OSError" =>
               ~ENABLED (Transform(k) \/ Makedirs(k) \/ Acquire(k) \/ Save(k))
    /\ \A k \in DOMAIN pc :
           (status = "running" /\ pc[k] = "lock" /\ \A j \in DOMAIN pc : pc[j] # "write") =>
               LockFree

\* C16 witness: the write of one worker has raised, leaving a truncated
\* archive, and the other worker has written both archives of its Case
C16_Witness ==
    /\ status = "running" /\ script = "augmentations" /\ samples_per_file = 2
    /\ \E k1, k2 \in DOMAIN pc :
          /\ pc[k1] = "OSError" /\ pc[k2] = "done"
          /\ \E name \in written : dest.files[name] = "partial"
          /\ \A name \in ArchiveNames(label_base(files[k2]), 2) :
                 name \in written /\ dest.files[name] = "ok"

(***************************************************************************)
(* C17. After any run with resume=true that completes normally, whatever   *)
(* the directory held before, every Case not skipped by resume has exactly *)
(* samples_per_file archives sharing its label_base prefix.                *)
(***************************************************************************)
\* C17 as claimed: after every run with resume=true whose tasks have all
\* completed, every Case the scan did not return has exactly its
\* samples_per_file archives
C17_ResumeRunExactArchives ==
    (TasksDone /\ resume) => \A c \in Cases : ~Skipped(c) => ExactArchives(c)

\* C17 as amended: after a run with resume=true whose tasks have all
\* completed, every Case the scan did not return and under whose prefix
\* the directory held nothing but archives of the indices 000 ..
\* samples_per_file-1 when the run started has exactly its
\* samples_per_file archives
C17_ResumeRunExactWithoutStale ==
    (TasksDone /\ resume) =>
        \A c \in Cases : (~Skipped(c) /\ NoStaleArchives(c)) => ExactArchives(c)

\* C17 witness: a run with resume=true and two samples per file has
\* completed its tasks, one Case skipped, the other found with archives
\* and left with exactly its two
C17_Witness ==
    /\ TasksDone /\ resume /\ samples_per_file = 2
    /\ \E c \in Cases : Skipped(c)
    /\ \E c \in Cases :
          /\ ~Skipped(c) /\ NoStaleArchives(c)
          /\ ArchivesOf(dest0, LabelBaseOf(c)) # {}
          /\ ExactArchives(c)

(***************************************************************************)
(* C18. Over any sequence of runs and crashes, every Case a later resume   *)
(* scan classifies as verified-complete has all its samples_per_file       *)
(* archives fully written and deserializable; a truncated archive at any   *)
(* index is always caught by resume validation.                            *)
(***************************************************************************)
\* the archives of the prefix that a write cut short
Truncated(d, base) == {name \in ArchivesOf(d, base) : d.files[name] = "partial"}

\* C18 as claimed: in a run with resume=true every Case the scan returned
\* had all its samples_per_file archives, each of them whole; and a Case
\* with a truncated archive makes the scan neither raise nor return it
C18_TruncatedArchiveAlwaysCaught ==
    (Started /\ resume) =>
        \A c \in Cases :
            /\ Skipped(c) =>
                   \A name \in ArchiveNames(LabelBaseOf(c), samples_per_file) :
                       name \in DOMAIN dest0.files /\ dest0.files[name] = "ok"
            /\ Truncated(dest0, LabelBaseOf(c)) # {} =>
                   (status # "ctor_raised" /\ ~Skipped(c))

(***************************************************************************)
(* C19. A task for Case c only creates or overwrites files named with c's  *)
(* label_base prefix and an index in [0, samples_per_file); it deletes no  *)
(* file and leaves every other Case's archives unchanged; the set of       *)
(* filenames only grows during generation.                                 *)
(***************************************************************************)
\* the name is `{label_base}_{i:03d}.npz` for the label volume of the file
\* dict and an index i in [0, n)
OwnArchive(name, file_path, n) ==
    /\ os_path_join(root, Prefix(name) \o nii_gz) = file_path.label
    /\ \E i \in 0..(n - 1) : name = Prefix(name) \o <<"_">> \o Format03d(i) \o npz

\* C19: a step of a run under way removes no file of the directory, and a
\* file it creates or changes is an archive of the Case the worker taking
\* the step works on
C19_TaskWritesOnlyOwnArchives ==
    [][(status = "running" /\ status' = "running") =>
          /\ DOMAIN dest.files \subseteq DOMAIN dest'.files
          /\ \A name \in DOMAIN dest'.files :
                 (name \notin DOMAIN dest.files \/ dest'.files[name] # dest.files[name]) =>
                     \E k \in DOMAIN pc :
                         /\ pc'[k] # pc[k]
                         /\ OwnArchive(name, files[task[k]], samples_per_file)]_vars

\* C19 witness: a worker has overwritten an archive of its Case that was
\* there when the run started, and an archive of the other Case that no
\* task has written is as it was
C19_Witness ==
    /\ status = "running"
    /\ \E name \in written \cap DOMAIN dest0.files :
          \E other \in DOMAIN dest0.files \ written :
              /\ Prefix(other) # Prefix(name)
              /\ other \in DOMAIN dest.files
              /\ dest.files[other] = dest0.files[other]

(***************************************************************************)
(* C20. Naming and prefix extraction round-trip: the prefix the scan       *)
(* derives from `{label_base}_{i:03d}.npz` is label_base, also when        *)
(* label_base has underscores, so archives of distinct label_bases are     *)
(* never grouped together and the path the scan builds for index           *)
(* samples_per_file-1 is the path generate wrote.                          *)
(***************************************************************************)
\* the archives the passes of __getitem__ on self.files[c] have written
WrittenFor(c) ==
    {NameIn(output_path(files[c], i)) : i \in 0..(samples_per_file - 1)} \cap written

\* C20: for both Cases of the work list, the prefix of every archive name
\* of the Case is its label_base; the files the scan groups under that
\* label_base are those written for the Case; the path the scan builds from
\* the prefix is the path of the Case's final archive; and every prefix the
\* scan found complete is the label_base of a Case whose final archive, by
\* the path the scan builds, is in the directory
C20_NamingRoundTrip ==
    /\ \A c \in DOMAIN files :
           /\ \A i \in 0..(samples_per_file - 1) :
                  Prefix(NameIn(output_path(files[c], i))) = label_base(files[c])
           /\ ArchivesOf(dest, label_base(files[c])) = WrittenFor(c)
           /\ test_file(Prefix(NameIn(output_path(files[c], samples_per_file - 1))),
                        samples_per_file)
                  = output_path(files[c], samples_per_file - 1)
    /\ \A p \in Range(valid_files) :
           /\ \E c \in DOMAIN files : p = label_base(files[c])
           /\ os_path_exists(dest, test_file(p, samples_per_file))

\* C20 witness: two samples per file, both Cases have their two archives,
\* the label_base of one is the other's followed by an underscore and
\* more, and the scan has found both prefixes complete
C20_Witness ==
    /\ samples_per_file = 2
    /\ Len(valid_files) = 2
    /\ \A c \in DOMAIN files : Cardinality(WrittenFor(c)) = 2
    /\ \E c1, c2 \in DOMAIN files :
          StartsWith(label_base(files[c2]), label_base(files[c1]) \o <<"_">>)

====
